---- MODULE Spec2Model ----
\* MedCare: the prescription-issuance procedure sp_IssuePrescriptionItem, the
\* restock statement updateMedicationStock.sql and the audit trigger
\* trg_Audit_StockUpdate, run by concurrent database sessions.
\*
\* The committed database is (stock, items, audit).  Every session has its own
\* user variable @current_staff_id, its own procedure frame (pc, args,
\* current_stock) and the uncommitted writes of its open transaction (tx).
\* A row lock on a medication is held by the session whose procedure is
\* between its SELECT ... FOR UPDATE and its COMMIT/ROLLBACK.
EXTENDS Integers, Sequences, FiniteSets, TLC

\* ---------------------------------------------------------------- bounds
NumMeds == 2
MaxStock == 2
MaxQty == 2
NumItemIds == 2
MaxAudit == 2
MaxPrice == 2

\* the connections of the pool
Sessions == {"c1", "c2"}
\* rows of the medications table; NumMeds + 1 is an id with no row
Meds == 1..NumMeds
MedIds == 1..(NumMeds + 1)
Quantities == (0 - 1)..MaxQty
ItemIds == 1..NumItemIds
StaffIds == {"d1"}
\* unit prices the form can submit; every medication starts at price 1
Prices == 1..MaxPrice

\* ---------------------------------------------------------------- SQL values
NULL == "NULL"
NullInt == [isnull |-> TRUE]
IntVal(v) == [isnull |-> FALSE, val |-> v]
\* a TIMESTAMP value, written like the other column values as a string
Timestamp(t) == "ts" \o ToString(t)

MsgNotFound == "Medication not found."
MsgInvalidQuantity == "Invalid quantity requested."
MsgInsufficient == "Insufficient stock for medication."
MsgGeneric == "An error occurred while issuing prescription. Transaction rolled back."
MsgUnauthorized == "Unauthorized stock update detected."
MsgDuplicateKey == "Duplicate entry for key PRIMARY"
MsgLockTimeout == "Lock wait timeout exceeded"
MsgOk == "OK"
MsgNone == "none"
MsgAborted == "aborted"
MsgWrongValueCount == "Column count doesn't match value count at row 1"
MsgForeignKey == "Cannot add or update a child row: a foreign key constraint fails"

VARIABLES stock, items, audit, pc, args, current_staff_id, current_stock,
          tx, result, prefixLeft, unit_price, compliance, users, onb

vars == <<stock, items, audit, pc, args, current_staff_id, current_stock,
          tx, result, prefixLeft, unit_price, compliance, users, onb>>

dbVars == <<stock, items, audit, unit_price, compliance>>

\* the medication side: what the onboarding route never touches
medVars == <<stock, items, audit, pc, args, current_staff_id, current_stock,
             tx, result, prefixLeft, unit_price, compliance>>

\* the onboarding side: the users table and the POST handlers in progress
onbVars == <<users, onb>>

\* ---------------------------------------------------------------- onboarding
\* concurrent executions of POST /api/onboarding
Requests == {"r1", "r2"}
\* rows of the users table (not onboarded at first); "u0" has no row
UserRows == {"u1", "u2"}
UserIds == UserRows \cup {"u0"}
\* nidNumber of the body; "" is a missing field
NidNumbers == {"n1", "n2"}
Phones == {"p1", "p2"}

RespNone == "none"
RespMissing == "Missing required fields"
RespNotFound == "User not found"
RespAlready == "Already onboarded"
RespDuplicate == "Duplicate national ID"
RespUpdateFailed == "Update failed"
RespFailed == "Failed to complete onboarding"
RespSuccess == "Onboarding completed successfully"

NoRequest(resp) ==
  [pc |-> "idle", user_id |-> NULL, nidNumber |-> NULL, phone |-> NULL,
   response |-> resp]

\* ---------------------------------------------------------------- inputs
IssueArgs ==
  [prescriptionitem_id : ItemIds, diagnosis_id : {"dg1"}, quantity : Quantities,
   guide : {"guide"}, duration : {"duration"}, medication_id : MedIds,
   doctor_id : StaffIds \cup {NULL}]

NoArgs == [prescriptionitem_id |-> 0]
NoTx == [item |-> {}, stock |-> NullInt, audit |-> << >>]
NoResult == MsgNone

Max(a, b) == IF a > b THEN a ELSE b

\* history of the stock decisions on a medication since its stock was last set
\* to S: S minus the cumulative quantity of the attempts decided so far
\* (committed, or refused for stock), kept at -1 once it is negative
PrefixAfter(left, q) == Max(left - q, 0 - 1)

\* ---------------------------------------------------------------- helpers
MedExists(m) == m \in Meds

\* the row of prescription_item the procedure inserts
ItemRow(p) ==
  [prescriptionitem_id |-> p.prescriptionitem_id, diagnosis_id |-> p.diagnosis_id,
   quantity |-> p.quantity, guide |-> p.guide, duration |-> p.duration,
   medication_id |-> p.medication_id]

\* the session holds the row lock of medication m
HoldingPcs == {"check", "insert", "update", "commit"}
\* variant: the lock is given up once the checks have passed
HoldsCheckOnly(s, m) == pc[s] = "check" /\ args[s].medication_id = m

Holds(s, m) == pc[s] \in HoldingPcs /\ args[s].medication_id = m

\* variant: a plain SELECT, which never waits
LockFreeNoWait(s, m) == TRUE

\* variant: the locking read locks the whole table
LockFreeTable(s, m) == \A t \in Sessions \ {s} : pc[t] \notin HoldingPcs

\* SELECT ... FOR UPDATE and UPDATE wait while another session holds the row
LockFree(s, m) == \A t \in Sessions \ {s} : ~Holds(t, m)

\* another open transaction has inserted the same primary key
KeyPending(s, id) ==
  \E t \in Sessions \ {s} : \E r \in tx[t].item : r.prescriptionitem_id = id

\* variant: the table has no primary key, an INSERT never meets a duplicate
KeyNeverCommitted(id) == FALSE

KeyCommitted(id) == \E r \in items : r.prescriptionitem_id = id

\* variant: the stock check is missing
FirstViolationNoStock(cur, q) ==
  IF cur.isnull THEN MsgNotFound
  ELSE IF q <= 0 THEN MsgInvalidQuantity
  ELSE MsgNone

\* variant: the quantity check is missing
FirstViolationNoQty(cur, q) ==
  IF cur.isnull THEN MsgNotFound
  ELSE IF cur.val < q THEN MsgInsufficient
  ELSE MsgNone

\* the three precondition checks of the procedure, in its order
FirstViolation(cur, q) ==
  IF cur.isnull THEN MsgNotFound
  ELSE IF q <= 0 THEN MsgInvalidQuantity
  ELSE IF cur.val < q THEN MsgInsufficient
  ELSE MsgNone

\* variant: the decrement is one unit, not the requested quantity
NewStockByOne(cur, q) == cur - 1

NewStock(cur, q) == cur - q

\* variant: the trigger has no attribution check
TriggerNeverRejects(ctx) == FALSE

\* variant: the trigger refuses every update
TriggerRejectsAll(ctx) == TRUE

\* trg_Audit_StockUpdate: rejection test, classification and the audit row
TriggerRejects(ctx) == ctx = NULL

\* variant: the CASE branches are exchanged
ChangeTypeSwapped(old, new) == IF new > old THEN "deduction" ELSE "addition"

ChangeType(old, new) == IF new > old THEN "addition" ELSE "deduction"

\* the column list names change_at before staff_id, the value list gives
\* @current_staff_id before CURRENT_TIMESTAMP
AuditRow(m, old, new, ctx, t) ==
  [medication_id |-> m, old_quantity |-> old, new_quantity |-> new,
   change_type |-> ChangeType(old, new), change_at |-> ctx,
   staff_id |-> Timestamp(t)]

\* variant: a row is logged for every update, changed or not
TriggerAuditAlways(m, old, new, ctx, t) == << AuditRow(m, old, new, ctx, t) >>

TriggerAudit(m, old, new, ctx, t) ==
  IF new # old THEN << AuditRow(m, old, new, ctx, t) >> ELSE << >>

\* variant: one audit row per medication, overwritten by the next change
ReplaceAudit(log, rows) == IF rows = << >> THEN log ELSE rows

\* INSERT INTO medication_audit adds the trigger's row after the rows there are
AppendAudit(log, rows) == log \o rows

\* CURRENT_TIMESTAMP, as a logical clock: the number of audit rows committed
Now == Len(audit)

Active == {s \in Sessions : pc[s] # "idle"}

\* room for one more committed stock change
Room == Len(audit) + Cardinality(Active) < MaxAudit

\* ---------------------------------------------------------------- Init
Init ==
  /\ stock = [m \in Meds |-> MaxStock]
  /\ items = {}
  /\ audit = << >>
  /\ pc = [s \in Sessions |-> "idle"]
  /\ args = [s \in Sessions |-> NoArgs]
  /\ current_staff_id = [s \in Sessions |-> NULL]
  /\ current_stock = [s \in Sessions |-> NullInt]
  /\ tx = [s \in Sessions |-> NoTx]
  /\ result = [s \in Sessions |-> NoResult]
  /\ prefixLeft = stock
  /\ unit_price = [m \in Meds |-> 1]
  /\ compliance = << >>
  /\ users = [u \in UserRows |-> [nid_number |-> NULL, phone |-> NULL]]
  /\ onb = [r \in Requests |-> NoRequest(RespNone)]

\* ---------------------------------------------------------------- issuance
\* EXIT HANDLER FOR SQLEXCEPTION: ROLLBACK, then the generic SIGNAL; the
\* procedure ends there, so the statement that clears @current_staff_id is
\* not reached
\* variant: the handler passes the condition on (RESIGNAL) after its ROLLBACK
HandlerExitRethrow(s, msg) ==
  /\ pc' = [pc EXCEPT ![s] = "idle"]
  /\ tx' = [tx EXCEPT ![s] = NoTx]
  /\ args' = [args EXCEPT ![s] = NoArgs]
  /\ current_stock' = [current_stock EXCEPT ![s] = NullInt]
  /\ result' = [result EXCEPT ![s] = msg]
  /\ UNCHANGED <<dbVars, current_staff_id>>

\* variant: the handler has no ROLLBACK, the rows written so far stay
HandlerExitNoRollback(s, msg) ==
  /\ pc' = [pc EXCEPT ![s] = "idle"]
  /\ tx' = [tx EXCEPT ![s] = NoTx]
  /\ args' = [args EXCEPT ![s] = NoArgs]
  /\ current_stock' = [current_stock EXCEPT ![s] = NullInt]
  /\ result' = [result EXCEPT ![s] = MsgGeneric]
  /\ items' = items \cup tx[s].item
  /\ UNCHANGED <<stock, audit, unit_price, compliance, current_staff_id>>

HandlerExit(s, msg) ==
  /\ pc' = [pc EXCEPT ![s] = "idle"]
  /\ tx' = [tx EXCEPT ![s] = NoTx]
  /\ args' = [args EXCEPT ![s] = NoArgs]
  /\ current_stock' = [current_stock EXCEPT ![s] = NullInt]
  /\ result' = [result EXCEPT ![s] = MsgGeneric]
  /\ UNCHANGED <<dbVars, current_staff_id>>

\* CALL sp_IssuePrescriptionItem: SET @current_staff_id, START TRANSACTION
Call(s, p) ==
  /\ UNCHANGED onbVars
  /\ pc[s] = "idle"
  /\ Room
  /\ current_staff_id' = [current_staff_id EXCEPT ![s] = p.doctor_id]
  /\ args' = [args EXCEPT ![s] = p]
  /\ pc' = [pc EXCEPT ![s] = "select"]
  /\ result' = [result EXCEPT ![s] = NoResult]
  /\ UNCHANGED <<dbVars, current_stock, tx, prefixLeft>>

\* SELECT stock_quantity INTO current_stock ... FOR UPDATE: waits for the row
\* lock; no row leaves current_stock NULL
SelectForUpdate(s) ==
  /\ UNCHANGED onbVars
  /\ pc[s] = "select"
  /\ LET m == args[s].medication_id IN
       IF MedExists(m)
       THEN /\ LockFree(s, m)
            /\ current_stock' = [current_stock EXCEPT ![s] = IntVal(stock[m])]
       ELSE current_stock' = [current_stock EXCEPT ![s] = NullInt]
  /\ pc' = [pc EXCEPT ![s] = "check"]
  /\ UNCHANGED <<dbVars, args, current_staff_id, tx, result, prefixLeft>>

\* the three IF ... ROLLBACK; SIGNAL blocks; SQLSTATE 45000 is an SQLEXCEPTION,
\* so each SIGNAL activates the exit handler
Validate(s) ==
  /\ UNCHANGED onbVars
  /\ pc[s] = "check"
  /\ LET m == args[s].medication_id
         q == args[s].quantity
         v == FirstViolation(current_stock[s], q)
     IN /\ IF v = MsgNone
           THEN /\ pc' = [pc EXCEPT ![s] = "insert"]
                /\ UNCHANGED <<dbVars, args, current_staff_id, current_stock,
                               tx, result>>
           ELSE HandlerExit(s, v)
        /\ IF v = MsgInsufficient
           THEN prefixLeft' = [prefixLeft EXCEPT ![m] = PrefixAfter(prefixLeft[m], q)]
           ELSE UNCHANGED prefixLeft

\* INSERT INTO prescription_item
InsertItem(s) ==
  /\ UNCHANGED onbVars
  /\ pc[s] = "insert"
  /\ ~KeyPending(s, args[s].prescriptionitem_id)
  /\ IF KeyCommitted(args[s].prescriptionitem_id)
     THEN HandlerExit(s, MsgDuplicateKey)
     ELSE /\ tx' = [tx EXCEPT ![s].item = {ItemRow(args[s])}]
          /\ pc' = [pc EXCEPT ![s] = "update"]
          /\ UNCHANGED <<dbVars, args, current_staff_id, current_stock,
                         result>>
  /\ UNCHANGED prefixLeft

\* UPDATE medications SET stock_quantity = current_stock - p_quantity, with
\* the AFTER UPDATE trigger
UpdateStock(s) ==
  /\ UNCHANGED onbVars
  /\ pc[s] = "update"
  /\ LET m == args[s].medication_id
         old == stock[m]
         new == NewStock(current_stock[s].val, args[s].quantity)
     IN IF TriggerRejects(current_staff_id[s])
        THEN HandlerExit(s, MsgUnauthorized)
        ELSE /\ tx' = [tx EXCEPT ![s].stock = IntVal(new),
                                 ![s].audit = TriggerAudit(m, old, new,
                                                current_staff_id[s], Now)]
             /\ pc' = [pc EXCEPT ![s] = "commit"]
             /\ UNCHANGED <<dbVars, args, current_staff_id, current_stock,
                            result>>
  /\ UNCHANGED prefixLeft

\* COMMIT
Commit(s) ==
  /\ UNCHANGED onbVars
  /\ pc[s] = "commit"
  /\ LET m == args[s].medication_id IN
       /\ stock' = [stock EXCEPT ![m] = tx[s].stock.val]
       /\ prefixLeft' = [prefixLeft EXCEPT
                           ![m] = PrefixAfter(prefixLeft[m], args[s].quantity)]
  /\ items' = items \cup tx[s].item
  /\ audit' = AppendAudit(audit, tx[s].audit)
  /\ UNCHANGED <<unit_price, compliance>>
  /\ tx' = [tx EXCEPT ![s] = NoTx]
  /\ pc' = [pc EXCEPT ![s] = "clear"]
  /\ args' = [args EXCEPT ![s] = NoArgs]
  /\ current_stock' = [current_stock EXCEPT ![s] = NullInt]
  /\ UNCHANGED <<current_staff_id, result>>

\* SET @current_staff_id = NULL; END
ClearContext(s) ==
  /\ UNCHANGED onbVars
  /\ pc[s] = "clear"
  /\ current_staff_id' = [current_staff_id EXCEPT ![s] = NULL]
  /\ pc' = [pc EXCEPT ![s] = "idle"]
  /\ result' = [result EXCEPT ![s] = MsgOk]
  /\ UNCHANGED <<dbVars, args, current_stock, tx, prefixLeft>>

\* variant: lock waits never time out
LockWaitForever(s) == FALSE /\ UNCHANGED vars

\* a statement waiting for a row or key lock gives up (innodb_lock_wait_timeout)
LockWaitTimeout(s) ==
  /\ UNCHANGED onbVars
  /\ \/ /\ pc[s] = "select"
        /\ MedExists(args[s].medication_id)
        /\ ~LockFree(s, args[s].medication_id)
     \/ /\ pc[s] = "insert"
        /\ KeyPending(s, args[s].prescriptionitem_id)
  /\ HandlerExit(s, MsgLockTimeout)
  /\ UNCHANGED prefixLeft

\* the caller gives the call up before its COMMIT (request timeout): the
\* connection is dropped, the server rolls the open transaction back and the
\* session's variables go with the connection
AbortPcs == {"select", "check", "insert", "update", "commit"}

\* variant: the connection is closed cleanly, what was written is committed
AbortCommitsPending(s) ==
  /\ UNCHANGED onbVars
  /\ pc[s] \in AbortPcs
  /\ pc' = [pc EXCEPT ![s] = "idle"]
  /\ tx' = [tx EXCEPT ![s] = NoTx]
  /\ args' = [args EXCEPT ![s] = NoArgs]
  /\ current_stock' = [current_stock EXCEPT ![s] = NullInt]
  /\ current_staff_id' = [current_staff_id EXCEPT ![s] = NULL]
  /\ result' = [result EXCEPT ![s] = MsgAborted]
  /\ items' = items \cup tx[s].item
  /\ UNCHANGED <<stock, audit, unit_price, compliance, prefixLeft>>

Abort(s) ==
  /\ UNCHANGED onbVars
  /\ pc[s] \in AbortPcs
  /\ pc' = [pc EXCEPT ![s] = "idle"]
  /\ tx' = [tx EXCEPT ![s] = NoTx]
  /\ args' = [args EXCEPT ![s] = NoArgs]
  /\ current_stock' = [current_stock EXCEPT ![s] = NullInt]
  /\ current_staff_id' = [current_staff_id EXCEPT ![s] = NULL]
  /\ result' = [result EXCEPT ![s] = MsgAborted]
  /\ UNCHANGED <<dbVars, prefixLeft>>

\* ---------------------------------------------------------------- restock
\* MedicationPage.handleSubmit accepts a stock quantity that parses to a
\* non-negative integer
ValidStockQty(n) == ~(n < 0)

\* what the form's number field can hold, a negative quantity included
RestockArgs ==
  [medication_id : MedIds, stock_quantity : (0 - 1)..MaxStock, unit_price : Prices]

\* executeMutation('mutations/updateMedicationStock.sql', ...) on an idle
\* connection, autocommit; the statement sets no @current_staff_id
RestockCall(s, p) ==
  /\ UNCHANGED onbVars
  /\ pc[s] = "idle"
  /\ Room
  /\ ValidStockQty(p.stock_quantity)
  /\ pc' = [pc EXCEPT ![s] = "restock"]
  /\ args' = [args EXCEPT ![s] = p]
  /\ result' = [result EXCEPT ![s] = NoResult]
  /\ UNCHANGED <<dbVars, current_staff_id, current_stock, tx, prefixLeft>>

\* UPDATE medications SET stock_quantity = ?, unit_price = ? WHERE
\* medication_id = ?: waits for the row lock, then the AFTER UPDATE trigger runs
\* for the matched row in the same statement, whether or not a value changed
RestockUpdate(s) ==
  /\ UNCHANGED onbVars
  /\ pc[s] = "restock"
  /\ LET m == args[s].medication_id
         n == args[s].stock_quantity
     IN IF ~MedExists(m)
        THEN /\ result' = [result EXCEPT ![s] = MsgOk]
             /\ UNCHANGED <<dbVars, prefixLeft>>
        ELSE /\ LockFree(s, m)
             /\ IF TriggerRejects(current_staff_id[s])
                THEN /\ result' = [result EXCEPT ![s] = MsgUnauthorized]
                     /\ UNCHANGED <<dbVars, prefixLeft>>
                ELSE /\ stock' = [stock EXCEPT ![m] = n]
                     /\ unit_price' = [unit_price EXCEPT ![m] = args[s].unit_price]
                     /\ audit' = AppendAudit(audit,
                                    TriggerAudit(m, stock[m], n,
                                                 current_staff_id[s], Now))
                     /\ result' = [result EXCEPT ![s] = MsgOk]
                     /\ prefixLeft' = [prefixLeft EXCEPT ![m] = n]
                     /\ UNCHANGED <<items, compliance>>
  /\ pc' = [pc EXCEPT ![s] = "idle"]
  /\ args' = [args EXCEPT ![s] = NoArgs]
  /\ UNCHANGED <<current_staff_id, current_stock, tx>>

\* the UPDATE gives up waiting for the row lock; no handler, the error reaches
\* the caller as it is
RestockTimeout(s) ==
  /\ UNCHANGED onbVars
  /\ pc[s] = "restock"
  /\ MedExists(args[s].medication_id)
  /\ ~LockFree(s, args[s].medication_id)
  /\ pc' = [pc EXCEPT ![s] = "idle"]
  /\ args' = [args EXCEPT ![s] = NoArgs]
  /\ result' = [result EXCEPT ![s] = MsgLockTimeout]
  /\ UNCHANGED <<dbVars, current_staff_id, current_stock, tx, prefixLeft>>

\* ---------------------------------------------------------------- compliance
\* ids a patient can tick; NumItemIds + 1 is an id no prescription item has
MarkIds == 1..(NumItemIds + 1)

\* the INSERT of sp_MarkMedicationTaken: its column list and its VALUES list
ComplianceColumns == <<"prescriptionitem_id", "taken_date">>
ComplianceValues(id) == <<id>>

\* the row the INSERT would add; compliance_id is the AUTO_INCREMENT key
ComplianceRow(id) ==
  [compliance_id |-> Len(compliance) + 1, prescriptionitem_id |-> id]

\* CALL sp_MarkMedicationTaken(p_prescriptionitem_id) on an idle connection
MarkTakenCall(s, id) ==
  /\ UNCHANGED onbVars
  /\ pc[s] = "idle"
  /\ pc' = [pc EXCEPT ![s] = "mark"]
  /\ args' = [args EXCEPT ![s] = [prescriptionitem_id |-> id]]
  /\ result' = [result EXCEPT ![s] = NoResult]
  /\ UNCHANGED <<dbVars, current_staff_id, current_stock, tx, prefixLeft>>

\* INSERT INTO medication_compliance (prescriptionitem_id, taken_date)
\* VALUES (p_prescriptionitem_id): the statement is refused when the two lists
\* differ in length, else when the item does not exist (FOREIGN KEY)
MarkTakenInsert(s) ==
  /\ UNCHANGED onbVars
  /\ pc[s] = "mark"
  /\ LET id == args[s].prescriptionitem_id IN
       IF Len(ComplianceColumns) # Len(ComplianceValues(id))
       THEN /\ result' = [result EXCEPT ![s] = MsgWrongValueCount]
            /\ UNCHANGED dbVars
       ELSE IF ~KeyCommitted(id)
       THEN /\ result' = [result EXCEPT ![s] = MsgForeignKey]
            /\ UNCHANGED dbVars
       ELSE /\ compliance' = Append(compliance, ComplianceRow(id))
            /\ result' = [result EXCEPT ![s] = MsgOk]
            /\ UNCHANGED <<stock, items, audit, unit_price>>
  /\ pc' = [pc EXCEPT ![s] = "idle"]
  /\ args' = [args EXCEPT ![s] = NoArgs]
  /\ UNCHANGED <<current_staff_id, current_stock, tx, prefixLeft>>

Next ==
  \/ \E s \in Sessions : \E p \in IssueArgs : Call(s, p)
  \/ \E s \in Sessions : SelectForUpdate(s)
  \/ \E s \in Sessions : Validate(s)
  \/ \E s \in Sessions : InsertItem(s)
  \/ \E s \in Sessions : UpdateStock(s)
  \/ \E s \in Sessions : Commit(s)
  \/ \E s \in Sessions : ClearContext(s)
  \/ \E s \in Sessions : LockWaitTimeout(s)
  \/ \E s \in Sessions : Abort(s)
  \/ \E s \in Sessions : \E p \in RestockArgs : RestockCall(s, p)
  \/ \E s \in Sessions : RestockUpdate(s)
  \/ \E s \in Sessions : RestockTimeout(s)
  \/ \E s \in Sessions : \E id \in MarkIds : MarkTakenCall(s, id)
  \/ \E s \in Sessions : MarkTakenInsert(s)

Spec == Init /\ [][Next]_vars

\* the server runs the next statement of a called procedure to its end: the
\* statement either executes or, while it waits for a lock, times out
ProcedureStep(s) ==
  \/ SelectForUpdate(s)
  \/ Validate(s)
  \/ InsertItem(s)
  \/ UpdateStock(s)
  \/ Commit(s)
  \/ ClearContext(s)
  \/ LockWaitTimeout(s)

\* the statements whose progress the property is about, with the restock
\* form's price held at the initial price (no lock depends on a price)
RestockArgsSamePrice == {p \in RestockArgs : p.unit_price = 1}

FairNext ==
  \/ \E s \in Sessions : \E p \in IssueArgs : Call(s, p)
  \/ \E s \in Sessions : SelectForUpdate(s)
  \/ \E s \in Sessions : Validate(s)
  \/ \E s \in Sessions : InsertItem(s)
  \/ \E s \in Sessions : UpdateStock(s)
  \/ \E s \in Sessions : Commit(s)
  \/ \E s \in Sessions : ClearContext(s)
  \/ \E s \in Sessions : LockWaitTimeout(s)
  \/ \E s \in Sessions : Abort(s)
  \/ \E s \in Sessions : \E p \in RestockArgsSamePrice : RestockCall(s, p)
  \/ \E s \in Sessions : RestockUpdate(s)
  \/ \E s \in Sessions : RestockTimeout(s)

FairSpec ==
  Init /\ [][FairNext]_vars /\ \A s \in Sessions : WF_vars(ProcedureStep(s))

\* ---------------------------------------------------------------- POST /api/onboarding
\* the route's answer to a finished request
Respond(r, resp) == onb' = [onb EXCEPT ![r] = NoRequest(resp)]

\* users.nid_number is UNIQUE: no other row may hold the value
NidFree(u, nid) == \A v \in UserRows \ {u} : users[v].nid_number # nid

\* getUserByNidNumber.sql: the rows with this nid_number
UsersWithNid(nid) == {v \in UserRows : users[v].nid_number = nid}

\* auth(), request.json() and the required-field checks
OnbPost(r, u, nid, ph) ==
  /\ onb[r].pc = "idle"
  /\ IF nid = ""
     THEN Respond(r, RespMissing)
     ELSE onb' = [onb EXCEPT ![r] = [pc |-> "getUser", user_id |-> u,
                                     nidNumber |-> nid, phone |-> ph,
                                     response |-> RespNone]]
  /\ UNCHANGED <<users, medVars>>

\* executeQuery("queries/getUserById.sql"): not found, or already onboarded
OnbGetUserById(r) ==
  /\ onb[r].pc = "getUser"
  /\ LET u == onb[r].user_id IN
       IF u \notin UserRows THEN Respond(r, RespNotFound)
       ELSE IF users[u].nid_number # NULL THEN Respond(r, RespAlready)
       ELSE onb' = [onb EXCEPT ![r].pc = "getNid"]
  /\ UNCHANGED <<users, medVars>>

\* executeQuery("queries/getUserByNidNumber.sql"): the first row found belongs
\* to another user
OnbGetUserByNid(r) ==
  /\ onb[r].pc = "getNid"
  /\ LET found == UsersWithNid(onb[r].nidNumber) IN
       IF found # {} /\ (CHOOSE v \in found : TRUE) # onb[r].user_id
       THEN Respond(r, RespDuplicate)
       ELSE onb' = [onb EXCEPT ![r].pc = "update"]
  /\ UNCHANGED <<users, medVars>>

\* executeMutation("mutations/updateUserOnboarding.sql"): UPDATE users SET ...
\* WHERE user_id = ?; a UNIQUE violation is thrown and caught by the route
OnbUpdate(r) ==
  /\ onb[r].pc = "update"
  /\ LET u == onb[r].user_id
         affectedRows == IF u \in UserRows THEN 1 ELSE 0
     IN IF ~NidFree(u, onb[r].nidNumber)
        THEN Respond(r, RespFailed) /\ UNCHANGED users
        ELSE IF affectedRows = 0
        THEN Respond(r, RespUpdateFailed) /\ UNCHANGED users
        ELSE /\ users' = [users EXCEPT ![u] = [nid_number |-> onb[r].nidNumber,
                                               phone |-> onb[r].phone]]
             /\ Respond(r, RespSuccess)
  /\ UNCHANGED medVars

OnboardNext ==
  \/ \E r \in Requests : \E u \in UserIds : \E nid \in NidNumbers \cup {""} :
       \E ph \in Phones : OnbPost(r, u, nid, ph)
  \/ \E r \in Requests : OnbGetUserById(r)
  \/ \E r \in Requests : OnbGetUserByNid(r)
  \/ \E r \in Requests : OnbUpdate(r)

OnboardSpec == Init /\ [][OnboardNext]_vars

\* ================================================================ claims
LockPcs == {"check", "insert", "update", "commit"}
PassedPcs == {"insert", "update", "commit"}
CommitStep(s) == pc[s] = "commit" /\ pc'[s] = "clear"
ValidateFailStep(s) ==
  pc[s] = "check" /\ pc'[s] = "idle" /\ result'[s] # MsgAborted

C2_StockNonNegative == \A m \in Meds : stock[m] >= 0

\* an issuance has brought a medication's stock down to exactly 0
C2_Witness ==
  \E m \in Meds : /\ stock[m] = 0
                  /\ \E r \in items : r.medication_id = m

\* the attempt of session s violates one of the three preconditions
C3_Violates(s) ==
  /\ pc[s] \in LockPcs
  /\ \/ current_stock[s].isnull
     \/ args[s].quantity <= 0
     \/ current_stock[s].val < args[s].quantity

\* C3: an issuance attempt that violates a precondition ends at the checks
\* and leaves the committed stock, the prescription items and the audit rows
\* as they were, with nothing of its transaction pending.
C3_FailedValidationChangesNothing ==
  [][\A s \in Sessions : (C3_Violates(s) /\ pc'[s] # pc[s]) =>
       /\ pc'[s] = "idle"
       /\ stock' = stock /\ items' = items /\ audit' = audit
       /\ tx'[s] = NoTx]_vars

\* after one committed issuance, a second attempt was refused for stock and
\* the medication still has the stock the first one left
C3_Witness ==
  \E s \in Sessions : \E m \in Meds :
    /\ pc[s] = "idle" /\ result[s] = MsgGeneric
    /\ prefixLeft[m] < 0 /\ stock[m] > 0 /\ stock[m] < MaxStock
    /\ Len(audit) = 1 /\ Cardinality(items) = 1

\* C4: the commit of an issuance of quantity q takes the stock from S to
\* exactly S - q and adds exactly the one prescription item of its arguments,
\* in the same step; prescription items appear in no other step.
C4_CommitEffects ==
  [][/\ \A s \in Sessions : CommitStep(s) =>
          LET m == args[s].medication_id
              row == [prescriptionitem_id |-> args[s].prescriptionitem_id,
                      diagnosis_id |-> args[s].diagnosis_id,
                      quantity |-> args[s].quantity,
                      guide |-> args[s].guide,
                      duration |-> args[s].duration,
                      medication_id |-> m]
          IN /\ stock'[m] = stock[m] - args[s].quantity
             /\ \A r \in items : r.prescriptionitem_id # row.prescriptionitem_id
             /\ items' = items \cup {row}
     /\ items' # items => \E s \in Sessions : CommitStep(s)]_vars

\* an issuance has just committed: one item, one deduction row, stock lowered
\* by the item's quantity
C4_Witness ==
  \E s \in Sessions : \E r \in items :
    /\ pc[s] = "clear"
    /\ items = {r}
    /\ stock[r.medication_id] = MaxStock - r.quantity
    /\ Len(audit) = 1 /\ audit[1].change_type = "deduction"

\* C5: while an issuance is between its locking read of an existing medication
\* and its commit or rollback, no other issuance is in that window for the same
\* medication and nobody has written the stock: the value it read is still the
\* committed stock, and the value it is about to commit is that stock minus its
\* quantity.
C5_ExclusiveLock ==
  \A s \in Sessions :
    (pc[s] \in LockPcs /\ MedExists(args[s].medication_id)) =>
      LET m == args[s].medication_id IN
        /\ \A t \in Sessions \ {s} :
             ~(pc[t] \in LockPcs /\ args[t].medication_id = m)
        /\ current_stock[s] = IntVal(stock[m])
        /\ pc[s] = "commit" => tx[s].stock = IntVal(stock[m] - args[s].quantity)

\* one session holds the lock with its decrement pending while another
\* issuance and nobody else waits for the same medication
C5_Witness ==
  \E s \in Sessions : \E t \in Sessions \ {s} :
    /\ pc[s] = "commit" /\ pc[t] = "select"
    /\ args[t].medication_id = args[s].medication_id
    /\ args[t].quantity > 0
    /\ args[s].quantity + args[t].quantity <= stock[args[s].medication_id]

ValidationFailures == {MsgNotFound, MsgInvalidQuantity, MsgInsufficient}

\* C6: every issuance that fails at a check reports one of the three
\* validation failures, which differ from each other and from the generic
\* failure of storage errors.
C6_DistinctFailures ==
  [][\A s \in Sessions : ValidateFailStep(s) =>
       /\ result'[s] \in ValidationFailures
       /\ result'[s] # MsgGeneric
       /\ Cardinality(ValidationFailures \cup {MsgGeneric}) = 4]_vars

\* the failure the order of the preconditions assigns to an attempt
C7_Expected(s) ==
  IF ~MedExists(args[s].medication_id) THEN MsgNotFound
  ELSE IF args[s].quantity <= 0 THEN MsgInvalidQuantity
  ELSE MsgInsufficient

\* C7: the failure reported is that of the first violated precondition in the
\* order medication exists, quantity positive, stock sufficient.
C7_FirstViolationReported ==
  [][\A s \in Sessions : ValidateFailStep(s) => result'[s] = C7_Expected(s)]_vars

\* C8: whenever no procedure is running on a session, its @current_staff_id
\* is unset.
C8_ContextCleared ==
  \A s \in Sessions : pc[s] = "idle" => current_staff_id[s] = NULL

\* C9: every step that changes a medication's committed stock appends exactly
\* one audit row, with the old and new stock and with change_type 'addition'
\* exactly when the stock rose and 'deduction' exactly when it fell; audit rows
\* are appended in no other step.
C9_AuditComplete ==
  [][/\ \A m \in Meds : stock'[m] # stock[m] =>
          /\ Len(audit') = Len(audit) + 1
          /\ SubSeq(audit', 1, Len(audit)) = audit
          /\ LET r == audit'[Len(audit')] IN
               /\ r.medication_id = m
               /\ r.old_quantity = stock[m]
               /\ r.new_quantity = stock'[m]
               /\ r.change_type = "addition" <=> stock'[m] > stock[m]
               /\ r.change_type = "deduction" <=> stock'[m] < stock[m]
     /\ audit' # audit => \E m \in Meds : stock'[m] # stock[m]]_vars

\* the audit table holds a deduction and an addition
C9_Witness ==
  \E i, j \in 1..Len(audit) :
    audit[i].change_type = "deduction" /\ audit[j].change_type = "addition"

RestockStep(s) == pc[s] = "restock" /\ pc'[s] = "idle"
Timestamps == {Timestamp(t) : t \in 0..MaxAudit}

\* C11: the staff_id of every audit row is the acting-staff identity that was
\* in @current_staff_id when the stock was changed (for an issuance its
\* p_doctor_id), and its timestamp column holds the time of the change.
C11_AuditAttribution ==
  [][\A s \in Sessions :
       ((CommitStep(s) \/ RestockStep(s)) /\ Len(audit') > Len(audit)) =>
          LET r == audit'[Len(audit')] IN
            /\ r.staff_id = current_staff_id[s]
            /\ r.staff_id \in StaffIds
            /\ r.change_at \in Timestamps]_vars

\* C12: an update that leaves stock_quantity at its old value, made on a
\* session whose @current_staff_id is set, is accepted and neither the stock
\* nor the audit table changes.
C12_NoOpUpdateSilent ==
  [][\A s \in Sessions :
       (/\ RestockStep(s)
        /\ current_staff_id[s] # NULL
        /\ MedExists(args[s].medication_id)
        /\ result'[s] # MsgLockTimeout
        /\ args[s].stock_quantity = stock[args[s].medication_id])
         => /\ result'[s] = MsgOk
            /\ audit' = audit
            /\ stock' = stock]_vars

\* a session with its context set is at the UPDATE of a restock whose quantity
\* is the medication's present stock
C12_Witness ==
  \E s \in Sessions :
    /\ pc[s] = "restock"
    /\ current_staff_id[s] # NULL
    /\ MedExists(args[s].medication_id)
    /\ args[s].stock_quantity = stock[args[s].medication_id]
    /\ \A t \in Sessions \ {s} : pc[t] = "idle"

\* C13: an issuance whose quantity is 0 or negative never holds the row lock
\* of its medication and never waits for it while another issuance holds it.
C13_InvalidQuantityTakesNoLock ==
  \A s \in Sessions :
    (pc[s] \in {"select"} \cup LockPcs /\ args[s].quantity <= 0
       /\ MedExists(args[s].medication_id)) =>
      /\ pc[s] \notin LockPcs
      /\ \A t \in Sessions \ {s} :
           ~(pc[t] \in LockPcs /\ args[t].medication_id = args[s].medication_id)

\* C14: a storage error inside the issuance transaction (the INSERT meets an
\* existing primary key, or a statement's lock wait times out) ends the call
\* with the generic message and leaves stock, items and audit as they were,
\* with nothing of the transaction pending
StorageErrorStep(s) ==
  /\ pc[s] \in {"select", "insert"}
  /\ pc'[s] = "idle"
  /\ result'[s] # MsgAborted

C14_StorageErrorRollsBack ==
  [][\A s \in Sessions :
       /\ (/\ pc[s] = "insert"
           /\ \E r \in items : r.prescriptionitem_id = args[s].prescriptionitem_id
           /\ pc'[s] # pc[s]) => pc'[s] = "idle"
       /\ StorageErrorStep(s) =>
            /\ result'[s] = MsgGeneric
            /\ stock' = stock /\ items' = items /\ audit' = audit
            /\ tx'[s] = NoTx]_vars

C14_Witness ==
  \E s \in Sessions :
    /\ pc[s] = "insert"
    /\ \E r \in items : r.prescriptionitem_id = args[s].prescriptionitem_id
    /\ \A t \in Sessions \ {s} : pc[t] = "idle"

\* C15: a failure of the procedure after its checks have passed (item already
\* inserted included) leaves stock, items and audit as they were; a
\* prescription item becomes committed only in the step that commits its stock
\* decrement, and an issuance's decrement only in the step that commits its item
ProcedureFailStep(s) ==
  /\ pc[s] \in PassedPcs
  /\ pc'[s] = "idle"
  /\ result'[s] = MsgGeneric

C15_AllOrNothing ==
  [][/\ \A s \in Sessions :
          ProcedureFailStep(s) =>
            /\ stock' = stock /\ items' = items /\ audit' = audit
            /\ tx'[s] = NoTx
     /\ items' # items =>
          \E s \in Sessions :
            /\ CommitStep(s)
            /\ items' = items \cup {ItemRow(args[s])}
            /\ stock'[args[s].medication_id] =
                 stock[args[s].medication_id] - args[s].quantity
     /\ \A s \in Sessions :
          CommitStep(s) =>
            /\ ItemRow(args[s]) \in items' \ items
            /\ stock'[args[s].medication_id] < stock[args[s].medication_id]]_vars

C15_Witness ==
  \E s \in Sessions :
    /\ pc[s] = "update"
    /\ current_staff_id[s] = NULL
    /\ tx[s].item = {ItemRow(args[s])}
    /\ items = {}

\* C16: an issuance the caller aborts before its commit leaves stock, items
\* and audit as they were, keeps nothing pending and no longer holds the row
\* lock; an issuance waiting for a medication's row can take the lock as soon
\* as no other session is between its locking read and its commit on that row
AbortStep(s) ==
  /\ pc[s] \in {"select"} \cup LockPcs
  /\ pc'[s] = "idle"
  /\ result'[s] = MsgAborted

C16_AbortRollsBack ==
  /\ [][\A s \in Sessions :
          AbortStep(s) =>
            /\ stock' = stock /\ items' = items /\ audit' = audit
            /\ tx'[s] = NoTx
            /\ pc'[s] \notin LockPcs]_vars
  /\ [](\A t \in Sessions :
          (/\ pc[t] = "select"
           /\ MedExists(args[t].medication_id)
           /\ \A u \in Sessions \ {t} :
                ~(pc[u] \in LockPcs /\ args[u].medication_id = args[t].medication_id))
            => ENABLED SelectForUpdate(t))

C16_Witness ==
  \E s \in Sessions : \E t \in Sessions \ {s} :
    /\ pc[s] = "idle" /\ result[s] = MsgAborted
    /\ pc[t] = "check" /\ ~current_stock[t].isnull
    /\ items = {} /\ audit = << >>

\* C17: under the server's statement progress, an issuance waiting for a row
\* lock eventually holds it or has failed, every issuance that was called
\* reaches an outcome, and a call that has left the procedure (by COMMIT or by
\* any failure) keeps no lock: a waiting issuance can take the row whenever
\* every other session is outside the transaction
OutsidePcs == {"idle", "clear", "restock"}

C17_NoIssuanceWaitsForever ==
  /\ \A s \in Sessions :
       (pc[s] = "select") ~>
          (pc[s] \in LockPcs \/ (pc[s] = "idle" /\ result[s] \in {MsgGeneric, MsgAborted}))
  /\ \A s \in Sessions :
       (pc[s] \in {"select"} \cup LockPcs) ~>
          (pc[s] = "idle" /\ result[s] \in {MsgGeneric, MsgAborted, MsgOk})
  /\ [](\A t \in Sessions :
          (/\ pc[t] = "select"
           /\ \A u \in Sessions \ {t} : pc[u] \in OutsidePcs /\ tx[u] = NoTx)
            => ENABLED SelectForUpdate(t))

C17_Witness ==
  \E s \in Sessions : \E t \in Sessions \ {s} :
    /\ pc[s] = "select"
    /\ MedExists(args[s].medication_id)
    /\ pc[t] \in LockPcs
    /\ args[t].medication_id = args[s].medication_id

\* C18: an issuance whose medication row no other session holds can always
\* take its next step (as stated: whatever the other sessions do on other
\* medications)
InTransaction(s) == pc[s] \in {"select"} \cup LockPcs

RowNotHeldByOthers(s) ==
  \A t \in Sessions \ {s} :
    ~(pc[t] \in LockPcs /\ args[t].medication_id = args[s].medication_id)

IssuanceStep(s) ==
  SelectForUpdate(s) \/ Validate(s) \/ InsertItem(s) \/ UpdateStock(s) \/ Commit(s)

SameKeyPending(s) ==
  \E t \in Sessions \ {s} :
    \E r \in tx[t].item : r.prescriptionitem_id = args[s].prescriptionitem_id

C18_DifferentMedicationsNeverBlock ==
  \A s \in Sessions :
    (InTransaction(s) /\ RowNotHeldByOthers(s)) => ENABLED IssuanceStep(s)

\* C18 as amended: the only wait between issuances on different medications
\* is the INSERT of a prescription-item identifier that another open
\* transaction has inserted
C18_BlockedOnlyBySameItemId ==
  \A s \in Sessions :
    (InTransaction(s) /\ RowNotHeldByOthers(s)) =>
       \/ ENABLED IssuanceStep(s)
       \/ pc[s] = "insert" /\ SameKeyPending(s)

C18_Witness ==
  \E s \in Sessions : \E t \in Sessions \ {s} :
    /\ pc[s] = "commit" /\ pc[t] = "commit"
    /\ args[s].medication_id # args[t].medication_id

\* C19: the stock value a committing issuance validated is the value left by
\* the last committed write to its medication (the initial stock if there is
\* none), the issuance writes that value minus its quantity, logs exactly
\* this pair, and no other session is between its locking read and its commit
\* on the same medication: commits follow the order of the lock acquisitions
AuditOf(m) == SelectSeq(audit, LAMBDA r : r.medication_id = m)

LastWritten(m) ==
  IF AuditOf(m) = << >> THEN MaxStock
  ELSE AuditOf(m)[Len(AuditOf(m))].new_quantity

C19_SerializedInLockOrder ==
  [][\A s \in Sessions :
       CommitStep(s) =>
         LET m == args[s].medication_id
             v == current_stock[s].val
         IN /\ v = LastWritten(m)
            /\ stock'[m] = v - args[s].quantity
            /\ Len(audit') = Len(audit) + 1
            /\ audit'[Len(audit')].medication_id = m
            /\ audit'[Len(audit')].old_quantity = v
            /\ audit'[Len(audit')].new_quantity = v - args[s].quantity
            /\ \A t \in Sessions \ {s} :
                 ~(pc[t] \in LockPcs /\ args[t].medication_id = m)]_vars

\* two issuances on one medication have committed one after the other
C19_Witness ==
  /\ Len(audit) = 2 /\ Cardinality(items) = 2
  /\ audit[1].medication_id = audit[2].medication_id
  /\ audit[2].old_quantity = audit[1].new_quantity
  /\ \A r \in items : r.medication_id = audit[1].medication_id

\* C20: every change of a medication's committed stock is the decrement of a
\* committing issuance by its quantity, or a rise made by the restock
\* statement
C20_DecrementOrRestockIncrease ==
  [][\A m \in Meds :
       stock'[m] # stock[m] =>
         \/ \E s \in Sessions :
              /\ CommitStep(s) /\ args[s].medication_id = m
              /\ stock'[m] = stock[m] - args[s].quantity
         \/ \E s \in Sessions :
              /\ RestockStep(s) /\ args[s].medication_id = m
              /\ stock'[m] > stock[m]]_vars

\* C21: medication_audit is append-only: in every step, whichever operation
\* takes it, the rows there are stay where they are, unmodified, and new rows
\* come after them
C21_AuditAppendOnly ==
  [][/\ Len(audit') >= Len(audit)
     /\ \A i \in 1..Len(audit) : audit'[i] = audit[i]]_vars

\* a second audit row has been added after a first one
C21_Witness ==
  /\ Len(audit) = 2
  /\ audit[1] # audit[2]

\* C22: a committed prescription item stays as it is: every row of
\* prescription_item is in the table after every step, and no two rows share
\* a prescriptionitem_id, so no step replaces a row by one with other fields
C22_ItemsImmutable ==
  /\ [][\A r \in items : r \in items']_vars
  /\ [](\A r1 \in items : \A r2 \in items :
          r1.prescriptionitem_id = r2.prescriptionitem_id => r1 = r2)

\* an issuance met the identifier of a committed item and has come to its INSERT
C22_Witness ==
  \E s \in Sessions :
    /\ pc[s] = "insert"
    /\ \E r \in items :
         /\ r.prescriptionitem_id = args[s].prescriptionitem_id
         /\ r # ItemRow(args[s])

\* C23: the trigger decides on the context alone.  With @current_staff_id
\* set, the UPDATE of the procedure and the restock UPDATE go through whatever
\* the old and the new stock are, the value written is the value the statement
\* gave, and an audit row is added exactly when the stock value changes; with
\* it unset, the statement is refused and nothing is written
TriggerStepOfIssuance(s) ==
  pc[s] = "update" /\ pc'[s] # pc[s] /\ result'[s] # MsgAborted

TriggerStepOfRestock(s) ==
  /\ RestockStep(s)
  /\ MedExists(args[s].medication_id)
  /\ result'[s] # MsgLockTimeout

C23_TriggerPureObserver ==
  [][\A s \in Sessions :
       /\ TriggerStepOfIssuance(s) =>
            LET new == current_stock[s].val - args[s].quantity IN
              IF current_staff_id[s] = NULL
              THEN pc'[s] = "idle" /\ tx'[s] = NoTx
              ELSE /\ pc'[s] = "commit"
                   /\ tx'[s].stock = IntVal(new)
                   /\ Len(tx'[s].audit) = 1
                   /\ tx'[s].audit[1].old_quantity = current_stock[s].val
                   /\ tx'[s].audit[1].new_quantity = new
       /\ TriggerStepOfRestock(s) =>
            LET m == args[s].medication_id
                n == args[s].stock_quantity
            IN IF current_staff_id[s] = NULL
               THEN /\ result'[s] = MsgUnauthorized
                    /\ stock' = stock /\ unit_price' = unit_price /\ audit' = audit
               ELSE /\ result'[s] = MsgOk
                    /\ stock' = [stock EXCEPT ![m] = n]
                    /\ unit_price' = [unit_price EXCEPT ![m] = args[s].unit_price]
                    /\ Len(audit') = Len(audit) + (IF n # stock[m] THEN 1 ELSE 0)
                    /\ \A i \in 1..Len(audit) : audit'[i] = audit[i]
                    /\ n # stock[m] =>
                         /\ audit'[Len(audit')].old_quantity = stock[m]
                         /\ audit'[Len(audit')].new_quantity = n]_vars

\* the trigger has let a restock statement lower a stock: one deduction row
\* is logged and no prescription item exists
C23_Witness ==
  /\ Len(audit) = 1
  /\ items = {}
  /\ audit[1].change_type = "deduction"
  /\ stock[audit[1].medication_id] = audit[1].new_quantity

\* C24: sp_MarkMedicationTaken for an existing prescription item adds exactly
\* one medication_compliance row for that item after the rows there are, and
\* leaves stock, prescription items and audit rows as they were
MarkTakenStep(s) == pc[s] = "mark" /\ pc'[s] = "idle"

C24_MarkTakenAppendsOne ==
  [][\A s \in Sessions :
       (/\ MarkTakenStep(s)
        /\ \E r \in items : r.prescriptionitem_id = args[s].prescriptionitem_id)
         => /\ Len(compliance') = Len(compliance) + 1
            /\ compliance'[Len(compliance')].prescriptionitem_id =
                 args[s].prescriptionitem_id
            /\ \A i \in 1..Len(compliance) : compliance'[i] = compliance[i]
            /\ stock' = stock /\ items' = items /\ audit' = audit]_vars

\* C25: no two users ever hold the same nid_number, and a request that ends
\* while its national ID is registered to another account ends with
\* 'Duplicate national ID' and leaves the users table as it was
OnbEnds(r) == onb[r].pc \in {"getUser", "getNid", "update"} /\ onb'[r].pc = "idle"

NidTakenByOther(r) ==
  \E v \in UserRows \ {onb[r].user_id} : users[v].nid_number = onb[r].nidNumber

C25_DuplicateNidRejected ==
  /\ [](\A u \in UserRows : \A v \in UserRows \ {u} :
          users[u].nid_number # NULL => users[u].nid_number # users[v].nid_number)
  /\ [][\A r \in Requests :
          (/\ OnbEnds(r)
           /\ onb[r].pc \in {"getNid", "update"}
           /\ NidTakenByOther(r))
            => /\ onb'[r].response = RespDuplicate
               /\ users' = users]_vars

\* C26: a request that ends while its user is already onboarded (nid_number
\* set) ends with 'Already onboarded' and leaves the users table as it was
C26_OnboardedOnce ==
  [][\A r \in Requests :
       (/\ OnbEnds(r)
        /\ onb[r].user_id \in UserRows
        /\ users[onb[r].user_id].nid_number # NULL)
         => /\ onb'[r].response = RespAlready
            /\ users' = users]_vars

\* C27: a stock update sent on a session without setting @current_staff_id
\* itself (the restock statement) is refused as unauthorised and writes
\* nothing, whatever issuance ran on that session before and however it ended
C27_LeftoverIdentityNeverAuthorises ==
  [][\A s \in Sessions :
       TriggerStepOfRestock(s) =>
         /\ result'[s] = MsgUnauthorized
         /\ stock' = stock /\ unit_price' = unit_price /\ audit' = audit]_vars

\* C28: an issuance of exactly the stock it read passes the checks and its
\* commit leaves the stock at 0; an issuance of a positive quantity that reads
\* stock 0 ends at the stock check with the insufficient-stock message and
\* changes no stock
ChecksDecided(s) ==
  /\ pc[s] = "check" /\ pc'[s] # pc[s] /\ result'[s] # MsgAborted
  /\ ~current_stock[s].isnull

C28_ExactStockThenInsufficient ==
  [][\A s \in Sessions :
       /\ (ChecksDecided(s) /\ args[s].quantity > 0
             /\ args[s].quantity = current_stock[s].val) => pc'[s] = "insert"
       /\ (CommitStep(s) /\ args[s].quantity = current_stock[s].val)
             => stock'[args[s].medication_id] = 0
       /\ (ChecksDecided(s) /\ args[s].quantity > 0 /\ current_stock[s].val = 0)
             => /\ pc'[s] = "idle"
                /\ result'[s] = MsgInsufficient
                /\ stock' = stock /\ items' = items]_vars

\* C29: for every medication, stock plus the quantities of its committed
\* prescription items starts at the initial stock and changes only by the
\* change a restock statement makes to the stock; so stock = initial stock +
\* net restock changes - issued quantities, and as long as no restock change
\* is committed the stock is the initial stock minus the issued quantities
RECURSIVE SumQuantity(_)
SumQuantity(S) ==
  IF S = {} THEN 0
  ELSE LET r == CHOOSE x \in S : TRUE IN r.quantity + SumQuantity(S \ {r})

Issued(m) == SumQuantity({r \in items : r.medication_id = m})

C29_StockBalance ==
  /\ [][\A m \in Meds :
          LET before == stock[m] + Issued(m)
              after == stock'[m] + Issued(m)'
          IN after # before =>
               \E s \in Sessions :
                 /\ RestockStep(s) /\ args[s].medication_id = m
                 /\ items' = items
                 /\ after - before = args[s].stock_quantity - stock[m]]_vars
  /\ [](Len(audit) = Cardinality(items) =>
          \A m \in Meds : stock[m] = MaxStock - Issued(m))

\* an issuance and a restock change have both been committed on one medication
C29_Witness ==
  \E m \in Meds :
    /\ Issued(m) > 0
    /\ stock[m] # MaxStock - Issued(m)
    /\ Len(audit) = 2

\* C30: an update of a medication row that changes only unit_price is
\* refused, with the row left as it was, when @current_staff_id is unset, and
\* goes through without an audit row when it is set
PriceOnlyUpdate(s) ==
  /\ TriggerStepOfRestock(s)
  /\ args[s].stock_quantity = stock[args[s].medication_id]
  /\ args[s].unit_price # unit_price[args[s].medication_id]

C30_PriceOnlyUpdateAttributed ==
  [][\A s \in Sessions :
       PriceOnlyUpdate(s) =>
         /\ stock' = stock /\ audit' = audit
         /\ IF current_staff_id[s] = NULL
            THEN result'[s] = MsgUnauthorized /\ unit_price' = unit_price
            ELSE /\ result'[s] = MsgOk
                 /\ unit_price' = [unit_price EXCEPT
                                     ![args[s].medication_id] = args[s].unit_price]]_vars

\* a price has been changed with no audit row written, and a statement of a
\* session without context has been refused
C30_Witness ==
  /\ audit = << >>
  /\ \E m \in Meds : unit_price[m] # 1 /\ stock[m] = MaxStock
  /\ \E s \in Sessions :
       /\ pc[s] = "idle" /\ result[s] = MsgUnauthorized
       /\ current_staff_id[s] = NULL

TypeOK ==
  /\ stock \in [Meds -> Int]
  /\ pc \in [Sessions -> {"idle", "select", "check", "insert", "update", "commit", "clear", "restock", "mark"}]
  /\ Len(audit) <= MaxAudit
====
